---- MODULE Spec2Model ----
(***************************************************************************)
(* vidtoolkit-rs (src/src/main.rs): a batch utility that walks directory   *)
(* trees, selects video files, and drives HandBrakeCLI / mkvmerge /        *)
(* faster-whisper-xxl on them.                                             *)
(*                                                                         *)
(* Text is modelled as sequences of one-character strings, a path as the   *)
(* sequence of its components, the filesystem as a function from the       *)
(* existing paths to their entries.  The external tools are black boxes:   *)
(* each call may fail to launch, print nothing, or print something; what   *)
(* a tool writes is stated with the operator that models it.               *)
(***************************************************************************)
EXTENDS Naturals, Sequences, FiniteSets, TLC

VARIABLES
    fs,            \* the filesystem: [existing paths -> entry]
    fs0,           \* the filesystem when the program started
    cli,           \* the parsed Cli: paths, dry_run, include_h264, no_transcode, gen_subs
    pc,            \* position of main
    pathIdx,       \* index of the current root path in cli.paths
    videos,        \* videos_to_transcode / videos_to_generate_subs_for
    vidIdx,        \* index of the transcode loop in videos
    pb,            \* position of the progress bar
    cv,            \* the convert_video call in progress, or the last one
    task,          \* subtitle pool: the state of the closure of each video
    invoked,       \* subtitle pool: speech-to-text invocations per video
    calls,         \* log of the Transcode Dispatcher: tool invocations and fs operations
    launchFailed,  \* tools whose launch has failed so far
    abortWhy,      \* why the process panicked ("none" while it has not)
    launches,      \* subprocess launches attempted so far
    faults,        \* tool calls that went wrong so far (launch failure, no output)
    snap,          \* the last walk that returned: path index, walker, filesystem
    walk           \* result record of the walker applications (walker specification)

vars == <<fs, fs0, cli, pc, pathIdx, videos, vidIdx, pb, cv, task, invoked,
          calls, launches, faults, launchFailed, abortWhy, snap, walk>>

----------------------------------------------------------------------------
(* Bounds of the model *)

MaxPaths == 2        \* root paths on the command line
MaxPoolVideos == 5   \* videos in the directory of the subtitle-pool scenario
MaxWalkFiles == 2    \* files in a tree handed to the walkers
MaxFaults == 1       \* tool calls of one run that fail to launch or to produce output

----------------------------------------------------------------------------
(* Text *)

UpperAlpha == <<"A","B","C","D","E","F","G","H","I","J","K","L","M",
                "N","O","P","Q","R","S","T","U","V","W","X","Y","Z">>
LowerAlpha == <<"a","b","c","d","e","f","g","h","i","j","k","l","m",
                "n","o","p","q","r","s","t","u","v","w","x","y","z">>

\* char::to_lowercase on the characters the model uses
LowerChar(c) ==
    IF \E i \in 1..26 : UpperAlpha[i] = c
    THEN LowerAlpha[CHOOSE i \in 1..26 : UpperAlpha[i] = c]
    ELSE c

\* str::to_lowercase
ToLowercase(s) == [i \in 1..Len(s) |-> LowerChar(s[i])]

WhiteSpace == {" ", "\n", "\t", "\r"}

\* str::trim: strip leading and trailing whitespace
Trim(s) ==
    LET keep == {i \in 1..Len(s) : s[i] \notin WhiteSpace}
    IN  IF keep = {} THEN <<>>
        ELSE LET lo == CHOOSE i \in keep : \A j \in keep : i <= j
                 hi == CHOOSE i \in keep : \A j \in keep : j <= i
             IN  SubSeq(s, lo, hi)

----------------------------------------------------------------------------
(* std::path *)

\* Option: None is the empty sequence, Some(x) the one-element sequence <<x>>
None == <<>>
Some(x) == <<x>>

\* index of the last '.' of a file name, 0 when there is none
LastDot(name) ==
    LET dots == {i \in 1..Len(name) : name[i] = "."}
    IN  IF dots = {} THEN 0 ELSE CHOOSE i \in dots : \A j \in dots : j <= i

FileName(path) == path[Len(path)]

\* Path::extension: None without a '.', None when the only '.' leads the name,
\* otherwise the text after the last '.' (possibly empty)
Extension(path) ==
    LET name == FileName(path)
        d == LastDot(name)
    IN  IF d <= 1 THEN None ELSE Some(SubSeq(name, d + 1, Len(name)))

\* Path::file_stem
FileStem(path) ==
    LET name == FileName(path)
        d == LastDot(name)
    IN  IF d <= 1 THEN name ELSE SubSeq(name, 1, d - 1)

Parent(path) == SubSeq(path, 1, Len(path) - 1)

\* Path::with_file_name
WithFileName(path, name) == Append(Parent(path), name)

\* PathBuf::set_extension
SetExtension(path, ext) == WithFileName(path, FileStem(path) \o <<".">> \o ext)

SrtExt == <<"s","r","t">>
TempFileName == <<"t","e","m","p","_","f","i","l","e",".","m","k","v">>
NewFileName == <<"n","e","w","_","f","i","l","e",".","m","k","v">>

valid_extension ==
    { <<"m","p","4">>, <<"m","k","v">>, <<"a","v","i">>, <<"m","o","v">>,
      <<"w","m","v">>, <<"f","l","v">>, <<"w","e","b","m">> }

----------------------------------------------------------------------------
(* The filesystem *)

H264 == <<"h","2","6","4">>
HEVC == <<"h","e","v","c">>
NoCodec == <<>>

\* a regular file: where its content comes from, the codec of its first video
\* stream (NoCodec: none), whether it embeds a subtitle stream
File(tag, of, vcodec, subs) ==
    [kind |-> "file", tag |-> tag, of |-> of, vcodec |-> vcodec, subs |-> subs]
Dir == [kind |-> "dir"]

Exists(fsys, p) == p \in DOMAIN fsys
IsFile(fsys, p) == Exists(fsys, p) /\ fsys[p].kind = "file"
IsDir(fsys, p) == Exists(fsys, p) /\ fsys[p].kind = "dir"

WriteFile(fsys, p, e) == (p :> e) @@ fsys
RemoveEntry(fsys, p) == [q \in (DOMAIN fsys) \ {p} |-> fsys[q]]

\* names in the order a directory enumerates them; read_dir's order is
\* OS-dependent, the walk actions try this order and its reverse
N_a == <<"a",".","m","k","v">>
N_B == <<"B",".","M","P","4">>
N_c == <<"c",".","t","x","t">>
N_noext == <<"n","o","e","x","t">>
N_hidden == <<".","m","k","v">>
N_dot == <<"e",".">>
N_srt == <<"a",".","s","r","t">>
N_s == <<"s">>
N_d == <<"d">>
PoolName(i) == <<"v", LowerAlpha[i], ".", "m", "k", "v">>

NameOrder ==
    <<N_a, N_s, TempFileName, N_B, N_c, N_noext, N_hidden, NewFileName, N_dot, N_srt>>
    \o [i \in 1..(MaxPoolVideos) |-> PoolName(i)]

Reverse(s) == [i \in 1..Len(s) |-> s[Len(s) + 1 - i]]
Orders == {NameOrder, Reverse(NameOrder)}

\* fs::read_dir: the entries of a directory, in enumeration order
ReadDir(fsys, d, ord) ==
    LET names == SelectSeq(ord, LAMBDA n : Exists(fsys, Append(d, n)))
    IN  [i \in 1..Len(names) |-> Append(d, names[i])]

----------------------------------------------------------------------------
(* ffprobe, as the program reads it *)

\* stdout of `ffprobe -select_streams v:0 -show_entries stream=codec_name`
CodecStdout(e) == IF e.vcodec = NoCodec THEN <<>> ELSE e.vcodec \o <<"\n">>

\* stdout of `ffprobe -select_streams s -show_entries stream=index`
SubsStdout(e) == IF e.subs THEN <<"2", "\n">> ELSE <<>>

Bool(b) == IF b THEN "true" ELSE "false"

\* a variant of check_for_h264 that compares the output without trimming it
check_for_h264_untrimmed(fsys, video, ffprobeOk) ==
    IF ~ffprobeOk THEN "panic"
    ELSE LET stdout == CodecStdout(fsys[video])
         IN  IF Len(stdout) > 0 THEN Bool(stdout = H264) ELSE "false"

\* check_for_h264: "true" / "false", or "panic" when ffprobe cannot be launched
check_for_h264(fsys, video, ffprobeOk) ==
    IF ~ffprobeOk THEN "panic"
    ELSE LET stdout == CodecStdout(fsys[video])
         IN  IF Len(stdout) > 0 THEN Bool(Trim(stdout) = H264) ELSE "false"

\* check_for_subs: embedded subtitles, else a sibling .srt
check_for_subs(fsys, video, ffprobeOk) ==
    IF ~ffprobeOk THEN "panic"
    ELSE IF Len(SubsStdout(fsys[video])) > 0 THEN "true"
    ELSE Bool(Exists(fsys, SetExtension(video, SrtExt)))

----------------------------------------------------------------------------
(* The walkers.  A result is [st, videos, probed, why]: st = "ok" and the  *)
(* list, or st = "panic" with the reason; probed lists the ffprobe calls.  *)

Ok(vs, ps) == [st |-> "ok", videos |-> vs, probed |-> ps, why |-> "none"]
Panic(ps, why) == [st |-> "panic", videos |-> <<>>, probed |-> ps, why |-> why]

\* a variant of HasValidExtension that compares the extension as written
HasValidExtensionCaseSensitive(path) == Extension(path)[1] \in valid_extension

\* valid_extension.contains(&path.extension().expect(..).to_string_lossy().to_lowercase())
HasValidExtension(path) == ToLowercase(Extension(path)[1]) \in valid_extension

\* a variant of ExtensionExpectFails that skips the entry
ExtensionMissingSkipped(acc) == acc

\* path.extension().expect("ERROR | No Extension found for file ..") on None
ExtensionExpectFails(acc) == Panic(acc.probed, "noext")

\* lines 166-171 / 183-188: push the candidate unless it is already h264
SelectForTranscode(fsys, path, acc, include_h264, ffprobeOk) ==
    IF include_h264 THEN Ok(Append(acc.videos, path), acc.probed)
    ELSE LET h == check_for_h264(fsys, path, ffprobeOk)
             ps == Append(acc.probed, path)
         IN  IF h = "panic" THEN Panic(ps, "launch")
             ELSE IF h = "false" THEN Ok(Append(acc.videos, path), ps)
             ELSE Ok(acc.videos, ps)

\* lines 217-219 / 231-233: push the candidate unless it has subtitles
SelectForSubs(fsys, path, acc, ffprobeOk) ==
    LET s == check_for_subs(fsys, path, ffprobeOk)
        ps == Append(acc.probed, path)
    IN  IF s = "panic" THEN Panic(ps, "launch")
        ELSE IF s = "false" THEN Ok(Append(acc.videos, path), ps)
        ELSE Ok(acc.videos, ps)

RECURSIVE get_videos(_, _, _, _, _)
RECURSIVE GetVideosLoop(_, _, _, _, _, _, _)

\* the `for file in files` loop of get_videos, from entry k on
GetVideosLoop(fsys, files, k, acc, include_h264, ffprobeOk, ord) ==
    IF acc.st = "panic" \/ k > Len(files) THEN acc
    ELSE LET path == files[k]
             next ==
                 IF IsDir(fsys, path)
                 THEN LET sub == get_videos(fsys, path, include_h264, ffprobeOk, ord)
                      IN  IF sub.st = "panic"
                          THEN Panic(acc.probed \o sub.probed, sub.why)
                          ELSE Ok(acc.videos \o sub.videos, acc.probed \o sub.probed)
                 ELSE IF Extension(path) = None THEN ExtensionExpectFails(acc)
                 ELSE IF HasValidExtension(path)
                 THEN SelectForTranscode(fsys, path, acc, include_h264, ffprobeOk)
                 ELSE acc
         IN  GetVideosLoop(fsys, files, k + 1, next, include_h264, ffprobeOk, ord)

\* a variant of get_videos whose file-root branch pushes without probing
get_videos_root_unprobed(fsys, directory, include_h264, ffprobeOk, ord) ==
    IF ~Exists(fsys, directory) THEN Ok(<<>>, <<>>)
    ELSE IF IsFile(fsys, directory)
    THEN IF Extension(directory) = None THEN ExtensionExpectFails(Ok(<<>>, <<>>))
         ELSE IF HasValidExtension(directory) THEN Ok(<<directory>>, <<>>)
         ELSE Ok(<<>>, <<>>)
    ELSE GetVideosLoop(fsys, ReadDir(fsys, directory, ord), 1, Ok(<<>>, <<>>),
                       include_h264, ffprobeOk, ord)

get_videos(fsys, directory, include_h264, ffprobeOk, ord) ==
    IF ~Exists(fsys, directory) THEN Ok(<<>>, <<>>)      \* metadata Err: printed
    ELSE IF IsFile(fsys, directory)
    THEN IF Extension(directory) = None THEN ExtensionExpectFails(Ok(<<>>, <<>>))
         ELSE IF HasValidExtension(directory)
         THEN SelectForTranscode(fsys, directory, Ok(<<>>, <<>>), include_h264, ffprobeOk)
         ELSE Ok(<<>>, <<>>)
    ELSE GetVideosLoop(fsys, ReadDir(fsys, directory, ord), 1, Ok(<<>>, <<>>),
                       include_h264, ffprobeOk, ord)

RECURSIVE get_videos_without_subs(_, _, _, _)
RECURSIVE GetSubsLoop(_, _, _, _, _, _)

GetSubsLoop(fsys, files, k, acc, ffprobeOk, ord) ==
    IF acc.st = "panic" \/ k > Len(files) THEN acc
    ELSE LET path == files[k]
             next ==
                 IF IsDir(fsys, path)
                 THEN LET sub == get_videos_without_subs(fsys, path, ffprobeOk, ord)
                      IN  IF sub.st = "panic"
                          THEN Panic(acc.probed \o sub.probed, sub.why)
                          ELSE Ok(acc.videos \o sub.videos, acc.probed \o sub.probed)
                 ELSE IF Extension(path) = None THEN ExtensionExpectFails(acc)
                 ELSE IF HasValidExtension(path)
                 THEN SelectForSubs(fsys, path, acc, ffprobeOk)
                 ELSE acc
         IN  GetSubsLoop(fsys, files, k + 1, next, ffprobeOk, ord)

get_videos_without_subs(fsys, directory, ffprobeOk, ord) ==
    IF Exists(fsys, directory) /\ IsFile(fsys, directory)
    THEN IF Extension(directory) = None THEN ExtensionExpectFails(Ok(<<>>, <<>>))
         ELSE IF HasValidExtension(directory)
         THEN SelectForSubs(fsys, directory, Ok(<<>>, <<>>), ffprobeOk)
         ELSE Ok(<<>>, <<>>)
    ELSE IF Exists(fsys, directory) /\ IsDir(fsys, directory)
    THEN GetSubsLoop(fsys, ReadDir(fsys, directory, ord), 1, Ok(<<>>, <<>>), ffprobeOk, ord)
    ELSE Ok(<<>>, <<>>)

----------------------------------------------------------------------------
(* The walker specification: the two walkers applied to bounded trees.     *)

Top == <<N_d>>
Sub == <<N_d, N_s>>
SubSub == <<N_d, N_s, N_s>>

WalkDirs == {Top, Sub, SubSub}
WalkNames == {N_a, N_B, N_c, N_noext, N_hidden, N_dot, N_srt}
WalkSlots == {Append(d, n) : d \in WalkDirs, n \in WalkNames}

\* the sets of at most k elements of S
RECURSIVE SubsetsUpTo(_, _)
SubsetsUpTo(S, k) ==
    IF k = 0 THEN {{}}
    ELSE LET prev == SubsetsUpTo(S, k - 1)
         IN  prev \cup {T \cup {x} : T \in prev, x \in S}

\* what a file at path p may hold when the program starts
VideoKinds(p) ==
    { File("orig", p, HEVC, FALSE), File("orig", p, H264, FALSE),
      File("orig", p, NoCodec, FALSE), File("orig", p, HEVC, TRUE) }
PlainKind(p) == File("orig", p, NoCodec, FALSE)
IsVideoName(n) == n \in {N_a, N_B, TempFileName, NewFileName}
KindsAt(p) == IF IsVideoName(FileName(p)) THEN VideoKinds(p) ELSE {PlainKind(p)}

\* the filesystem holding the directories ds and the files of f
MakeFs(ds, f) == [p \in ds \cup DOMAIN f |-> IF p \in ds THEN Dir ELSE f[p]]

NoCv == [src |-> <<>>, before |-> None, hb |-> "none", mkv |-> "none", renamed |-> FALSE]
NoWalk == [fn |-> "none"]
NoCli == [paths |-> <<>>, dry_run |-> FALSE, include_h264 |-> FALSE,
          no_transcode |-> FALSE, gen_subs |-> FALSE]

InitWalk ==
    /\ \E S \in SubsetsUpTo(WalkSlots, MaxWalkFiles) :
         \E f \in [S -> UNION {KindsAt(p) : p \in S}] :
            /\ \A p \in S : f[p] \in KindsAt(p)
            /\ fs = MakeFs(WalkDirs, f)
    /\ fs0 = fs
    /\ \E inc \in BOOLEAN : cli = [NoCli EXCEPT !.include_h264 = inc]
    /\ pc = "walker"
    /\ pathIdx = 0
    /\ videos = <<>>
    /\ vidIdx = 0
    /\ pb = 0
    /\ cv = NoCv
    /\ task = <<>>
    /\ invoked = <<>>
    /\ calls = <<>>
    /\ launches = 0
    /\ faults = 0
    /\ launchFailed = {}
    /\ abortWhy = "none"
    /\ snap = [pi |-> 0, fn |-> "none", fs |-> fs]
    /\ walk = NoWalk

\* the outcome of a walk: the returned list or the abort, without the probe log
Outcome(r) == [st |-> r.st, videos |-> r.videos, why |-> r.why]

\* get_videos on a root path and, for a file root, on its directory
ApplyGetVideos ==
    /\ pc = "walker"
    /\ \E root \in DOMAIN fs, ffprobeOk \in BOOLEAN, ord \in Orders :
         walk' = [fn |-> "get_videos", root |-> root, ffprobeOk |-> ffprobeOk,
                  ord |-> ord,
                  res |-> get_videos(fs, root, cli.include_h264, ffprobeOk, ord),
                  onParent |-> IF IsFile(fs, root)
                               THEN get_videos(fs, Parent(root), cli.include_h264,
                                               ffprobeOk, ord)
                               ELSE Ok(<<>>, <<>>)]
    /\ pc' = "walked"
    /\ UNCHANGED <<fs, fs0, cli, pathIdx, videos, vidIdx, pb, cv, task,
                   invoked, calls, launches, faults, launchFailed, abortWhy, snap>>

\* get_videos_without_subs on a root path and, for a file root, on its directory
ApplyGetVideosWithoutSubs ==
    /\ pc = "walker"
    /\ \E root \in DOMAIN fs, ffprobeOk \in BOOLEAN, ord \in Orders :
         walk' = [fn |-> "get_videos_without_subs", root |-> root,
                  ffprobeOk |-> ffprobeOk, ord |-> ord,
                  res |-> get_videos_without_subs(fs, root, ffprobeOk, ord),
                  onParent |-> IF IsFile(fs, root)
                               THEN get_videos_without_subs(fs, Parent(root),
                                                            ffprobeOk, ord)
                               ELSE Ok(<<>>, <<>>)]
    /\ pc' = "walked"
    /\ UNCHANGED <<fs, fs0, cli, pathIdx, videos, vidIdx, pb, cv, task,
                   invoked, calls, launches, faults, launchFailed, abortWhy, snap>>

NextWalk == ApplyGetVideos \/ ApplyGetVideosWithoutSubs

SpecWalk == InitWalk /\ [][NextWalk]_vars

----------------------------------------------------------------------------
(* The external tools of the Transcode Dispatcher.  An outcome of a call:  *)
(*   "launch"   the process could not be launched (output() is Err)        *)
(*   "empty"    it ran and printed nothing; nothing is written             *)
(*   "written"  it printed something and wrote its output file             *)
(*   "noisy"    it printed something and wrote nothing                     *)
(* A tool whose inputs exist writes its output; any other outcome of such  *)
(* a call is a fault, and a run has at most MaxFaults of them.             *)

Outcomes == {"launch", "empty", "written", "noisy"}

\* the stdout the program sees
Stdout(out) == IF out \in {"written", "noisy"} THEN <<"o", "k", "\n">> ELSE <<>>

\* the outcomes of a call whose inputs exist (ready) or not, n faults so far
ToolOutcomes(ready, n) ==
    LET normal == IF ready THEN {"written"} ELSE {"empty", "noisy"}
    IN  IF n < MaxFaults THEN (IF ready THEN Outcomes ELSE Outcomes \ {"written"})
        ELSE normal

IsFault(ready, out) == out = "launch" \/ (ready /\ out # "written")

\* the preset transcodes to H264 (the program's stated purpose, line 13)
HandBrakeOutput(fsys, video) ==
    File("hb", fsys[video].of, H264, fsys[video].subs)

\* mkvmerge -o new_file -D -A video -S -B -T -M temp_file:
\* video and audio come from temp_file, subtitles from the source
MkvmergeOutput(fsys, video, temp_file) ==
    File("mux", fsys[temp_file].of, fsys[temp_file].vcodec, fsys[video].subs)

\* fs::rename(from, to): Err when from does not exist
RenameOk(fsys, from, to) == IsFile(fsys, from) /\ ~IsDir(fsys, to)
Rename(fsys, from, to) ==
    IF ~RenameOk(fsys, from, to) \/ from = to THEN fsys
    ELSE WriteFile(RemoveEntry(fsys, from), to, fsys[from])

\* fs::remove_file(p): Err when p is no file
RemoveFile(fsys, p) == IF IsFile(fsys, p) THEN RemoveEntry(fsys, p) ELSE fsys

Call(tool, arg) == [tool |-> tool, arg |-> arg, pi |-> pathIdx]

\* a variant of ExpectLaunched that drops the Result
LaunchFailureDropped(out, next) == next

\* .expect(..) on the Result of output(): a launch failure panics
ExpectLaunched(out, next) == IF out = "launch" THEN "aborted" ELSE next

\* where convert_video goes after HandBrakeCLI (lines 109, 132)
AfterHandBrake(out) ==
    ExpectLaunched(out, IF Len(Stdout(out)) > 0 THEN "mkvmerge" ELSE "converted")

\* where convert_video goes after mkvmerge (lines 125, 131)
AfterMkvmerge(out) ==
    ExpectLaunched(out, IF Len(Stdout(out)) > 0 THEN "rename" ELSE "converted")

----------------------------------------------------------------------------
(* main *)

NumThreads == 4

Root == cli.paths[pathIdx]

Snap(fn) == [pi |-> pathIdx, fn |-> fn, fs |-> fs]

\* the panic of a walk
WalkPanics(r) ==
    /\ pc' = "aborted"
    /\ abortWhy' = r.why
    /\ launchFailed' = IF r.why = "launch" THEN launchFailed \cup {"ffprobe"}
                       ELSE launchFailed
    /\ faults' = IF r.why = "launch" THEN faults + 1 ELSE faults
    /\ UNCHANGED <<videos, vidIdx, pb, task, invoked, snap>>

\* whether ffprobe launches during a walk
ProbeLaunches == IF faults < MaxFaults THEN BOOLEAN ELSE {TRUE}

\* lines 248-263: the transcode walk, the dry-run report, the progress bar
WalkTranscode ==
    /\ pc = "path"
    /\ ~cli.no_transcode
    /\ \E ffprobeOk \in ProbeLaunches, ord \in Orders :
         LET r == get_videos(fs, Root, cli.include_h264, ffprobeOk, ord)
         IN  /\ launches' = launches + Len(r.probed)
             /\ IF r.st = "panic" THEN WalkPanics(r)
                ELSE /\ videos' = r.videos
                     /\ vidIdx' = 1
                     /\ pb' = 0
                     /\ snap' = Snap("get_videos")
                     /\ pc' = "transcode"
                     /\ UNCHANGED <<task, invoked, faults, launchFailed, abortWhy>>
    /\ UNCHANGED <<fs, fs0, cli, pathIdx, cv, calls, walk>>

\* line 248 with --no-transcode
SkipTranscode ==
    /\ pc = "path"
    /\ cli.no_transcode
    /\ pc' = "subs"
    /\ UNCHANGED <<fs, fs0, cli, pathIdx, videos, vidIdx, pb, cv, task, invoked,
                   calls, launches, faults, launchFailed, abortWhy, snap, walk>>

\* lines 264-267, 96-109: convert_video is entered and HandBrakeCLI runs
ConvertHandBrake ==
    /\ pc = "transcode"
    /\ vidIdx <= Len(videos)
    /\ LET video == videos[vidIdx]
           temp_file == WithFileName(video, TempFileName)
           ready == IsFile(fs, video)
       IN  \E out \in ToolOutcomes(ready, faults) :
             /\ fs' = IF out = "written"
                      THEN WriteFile(fs, temp_file, HandBrakeOutput(fs, video))
                      ELSE fs
             /\ cv' = [src |-> video,
                       before |-> IF Exists(fs, video) THEN Some(fs[video]) ELSE None,
                       hb |-> out, mkv |-> "none", renamed |-> FALSE]
             /\ calls' = Append(calls, Call("HandBrakeCLI", video))
             /\ launches' = launches + 1
             /\ faults' = IF IsFault(ready, out) THEN faults + 1 ELSE faults
             /\ pc' = AfterHandBrake(out)
             /\ launchFailed' = IF out = "launch" THEN launchFailed \cup {"HandBrakeCLI"}
                                ELSE launchFailed
             /\ abortWhy' = IF pc' = "aborted" THEN "launch" ELSE abortWhy
    /\ UNCHANGED <<fs0, cli, pathIdx, videos, vidIdx, pb, task, invoked, snap, walk>>

\* lines 113-125: mkvmerge runs
ConvertMkvmerge ==
    /\ pc = "mkvmerge"
    /\ LET video == cv.src
           temp_file == WithFileName(video, TempFileName)
           new_file == WithFileName(video, NewFileName)
           ready == IsFile(fs, video) /\ IsFile(fs, temp_file)
       IN  \E out \in ToolOutcomes(ready, faults) :
             /\ fs' = IF out = "written"
                      THEN WriteFile(fs, new_file, MkvmergeOutput(fs, video, temp_file))
                      ELSE fs
             /\ cv' = [cv EXCEPT !.mkv = out]
             /\ calls' = Append(calls, Call("mkvmerge", video))
             /\ launches' = launches + 1
             /\ faults' = IF IsFault(ready, out) THEN faults + 1 ELSE faults
             /\ pc' = AfterMkvmerge(out)
             /\ launchFailed' = IF out = "launch" THEN launchFailed \cup {"mkvmerge"}
                                ELSE launchFailed
             /\ abortWhy' = IF pc' = "aborted" THEN "launch" ELSE abortWhy
    /\ UNCHANGED <<fs0, cli, pathIdx, videos, vidIdx, pb, task, invoked, snap, walk>>

\* lines 129-130: rename new_file over the source, remove temp_file; both
\* Results are dropped
ConvertRename ==
    /\ pc = "rename"
    /\ LET video == cv.src
           temp_file == WithFileName(video, TempFileName)
           new_file == WithFileName(video, NewFileName)
       IN  /\ fs' = RemoveFile(Rename(fs, new_file, video), temp_file)
           /\ cv' = [cv EXCEPT !.renamed = RenameOk(fs, new_file, video)]
           /\ calls' = calls \o <<Call("rename", video), Call("remove_file", temp_file)>>
    /\ pc' = "converted"
    /\ UNCHANGED <<fs0, cli, pathIdx, videos, vidIdx, pb, task, invoked, launches,
                   faults, launchFailed, abortWhy, snap, walk>>

\* line 269: convert_video has returned
PbIncTranscode ==
    /\ pc = "converted"
    /\ pb' = pb + 1
    /\ vidIdx' = vidIdx + 1
    /\ pc' = "transcode"
    /\ UNCHANGED <<fs, fs0, cli, pathIdx, videos, cv, task, invoked, calls, launches,
                   faults, launchFailed, abortWhy, snap, walk>>

\* lines 271-272: the transcode loop is over
TranscodeDone ==
    /\ pc = "transcode"
    /\ vidIdx > Len(videos)
    /\ pc' = "subs"
    /\ UNCHANGED <<fs, fs0, cli, pathIdx, videos, vidIdx, pb, cv, task, invoked,
                   calls, launches, faults, launchFailed, abortWhy, snap, walk>>

\* lines 274-296: the subtitle walk, then the dry-run report or the pool
WalkSubs ==
    /\ pc = "subs"
    /\ cli.gen_subs
    /\ \E ffprobeOk \in ProbeLaunches, ord \in Orders :
         LET r == get_videos_without_subs(fs, Root, ffprobeOk, ord)
         IN  /\ launches' = launches + Len(r.probed)
             /\ IF r.st = "panic" THEN WalkPanics(r)
                ELSE /\ videos' = r.videos
                     /\ snap' = Snap("get_videos_without_subs")
                     /\ UNCHANGED <<vidIdx, faults, launchFailed, abortWhy>>
                     /\ IF cli.dry_run
                        THEN /\ pc' = "endpath"
                             /\ UNCHANGED <<pb, task, invoked>>
                        ELSE /\ pc' = "pool"
                             /\ pb' = 0
                             /\ task' = [i \in 1..Len(r.videos) |-> "pending"]
                             /\ invoked' = [i \in 1..Len(r.videos) |-> 0]
    /\ UNCHANGED <<fs, fs0, cli, pathIdx, cv, calls, walk>>

\* line 274 without --gen-subs
SkipSubs ==
    /\ pc = "subs"
    /\ ~cli.gen_subs
    /\ pc' = "endpath"
    /\ UNCHANGED <<fs, fs0, cli, pathIdx, videos, vidIdx, pb, cv, task, invoked,
                   calls, launches, faults, launchFailed, abortWhy, snap, walk>>

\* the closures that hold a pool thread: started and not yet through pb.inc
Busy(t) == {i \in DOMAIN t : t[i] \in {"running", "returned"}}

\* a variant of ThreadFree for a pool without a thread limit
ThreadAlwaysFree(t) == TRUE

\* a pool thread is free to take a closure
ThreadFree(t) == Cardinality(Busy(t)) < NumThreads

\* a video no thread has taken yet
Unclaimed(t, i) == t[i] = "pending"

\* whether faster-whisper-xxl launches
WhisperLaunches == IF faults < MaxFaults THEN BOOLEAN ELSE {TRUE}

\* lines 297-298, 137-147: a pool thread takes a video and launches
\* faster-whisper-xxl; the Result of output() is dropped
GenerateSubtitles(i) ==
    /\ pc = "pool"
    /\ ThreadFree(task)
    /\ Unclaimed(task, i)
    /\ \E launched \in WhisperLaunches :
         /\ task' = [task EXCEPT ![i] = IF launched THEN "running" ELSE "returned"]
         /\ launchFailed' = IF launched THEN launchFailed
                            ELSE launchFailed \cup {"faster-whisper-xxl"}
         /\ faults' = IF launched THEN faults ELSE faults + 1
    /\ invoked' = [invoked EXCEPT ![i] = @ + 1]
    /\ launches' = launches + 1
    /\ UNCHANGED <<fs, fs0, cli, pc, pathIdx, videos, vidIdx, pb, cv, calls,
                   abortWhy, snap, walk>>

\* line 147: faster-whisper-xxl exits, output() returns; the tool writes
\* <stem>.srt into the parent directory
WhisperExit(i) ==
    /\ pc = "pool"
    /\ task[i] = "running"
    /\ task' = [task EXCEPT ![i] = "returned"]
    /\ LET srt == SetExtension(videos[i], SrtExt)
       IN  fs' = IF IsDir(fs, srt) \/ ~IsFile(fs, videos[i]) THEN fs
                 ELSE WriteFile(fs, srt, File("srt", videos[i], NoCodec, FALSE))
    /\ UNCHANGED <<fs0, cli, pc, pathIdx, videos, vidIdx, pb, cv, invoked, calls,
                   launches, faults, launchFailed, abortWhy, snap, walk>>

\* line 299: pb.inc(1), an atomic add
PbIncSubs(i) ==
    /\ pc = "pool"
    /\ task[i] = "returned"
    /\ task' = [task EXCEPT ![i] = "done"]
    /\ pb' = pb + 1
    /\ UNCHANGED <<fs, fs0, cli, pc, pathIdx, videos, vidIdx, cv, invoked, calls,
                   launches, faults, launchFailed, abortWhy, snap, walk>>

\* lines 301-302: for_each has returned on every video
PoolDone ==
    /\ pc = "pool"
    /\ \A i \in DOMAIN task : task[i] = "done"
    /\ pc' = "endpath"
    /\ UNCHANGED <<fs, fs0, cli, pathIdx, videos, vidIdx, pb, cv, task, invoked,
                   calls, launches, faults, launchFailed, abortWhy, snap, walk>>

\* line 245: the next root path, or the end of main
NextPath ==
    /\ pc = "endpath"
    /\ IF pathIdx < Len(cli.paths)
       THEN pathIdx' = pathIdx + 1 /\ pc' = "path"
       ELSE pathIdx' = pathIdx /\ pc' = "done"
    /\ task' = <<>>
    /\ invoked' = <<>>
    /\ UNCHANGED <<fs, fs0, cli, videos, vidIdx, pb, cv, calls, launches, faults,
                   launchFailed, abortWhy, snap, walk>>

Next ==
    \/ WalkTranscode
    \/ SkipTranscode
    \/ ConvertHandBrake
    \/ ConvertMkvmerge
    \/ ConvertRename
    \/ PbIncTranscode
    \/ TranscodeDone
    \/ WalkSubs
    \/ SkipSubs
    \/ \E i \in DOMAIN task : GenerateSubtitles(i)
    \/ \E i \in DOMAIN task : WhisperExit(i)
    \/ \E i \in DOMAIN task : PbIncSubs(i)
    \/ PoolDone
    \/ NextPath

----------------------------------------------------------------------------
(* The states main can start in *)

MainRoots == {Top, Append(Top, N_noext)}

\* sequences over S of length 1..n
RECURSIVE SeqsUpTo(_, _)
SeqsUpTo(S, n) ==
    IF n = 0 THEN {}
    ELSE {<<x>> : x \in S} \cup
         {Append(q, x) : q \in SeqsUpTo(S, n - 1), x \in S}

Opt(p, kinds) == {<<>>} \cup {(p :> k) : k \in kinds}

\* a small tree: d/a.mkv, one of d/temp_file.mkv and d/new_file.mkv, and an
\* extension-less file in d or in d/s
MainFiles ==
    { a @@ t @@ n :
        a \in Opt(Append(Top, N_a), {File("orig", Append(Top, N_a), HEVC, FALSE),
                                     File("orig", Append(Top, N_a), H264, FALSE)}),
        t \in Opt(Append(Top, TempFileName),
                  {File("orig", Append(Top, TempFileName), HEVC, FALSE)})
              \cup Opt(Append(Top, NewFileName),
                       {File("orig", Append(Top, NewFileName), HEVC, FALSE)}),
        n \in Opt(Append(Top, N_noext), {PlainKind(Append(Top, N_noext))})
              \cup Opt(Append(Sub, N_noext), {PlainKind(Append(Sub, N_noext))}) }

\* the subtitle-pool scenario: a directory of videos already in H264
PoolFiles ==
    [p \in {Append(Top, PoolName(i)) : i \in 1..MaxPoolVideos} |->
        File("orig", p, H264, FALSE)]

InitRest ==
    /\ fs0 = fs
    /\ pc = "path"
    /\ pathIdx = 1
    /\ videos = <<>>
    /\ vidIdx = 0
    /\ pb = 0
    /\ cv = NoCv
    /\ task = <<>>
    /\ invoked = <<>>
    /\ calls = <<>>
    /\ launches = 0
    /\ faults = 0
    /\ launchFailed = {}
    /\ abortWhy = "none"
    /\ snap = [pi |-> 0, fn |-> "none", fs |-> fs]
    /\ walk = NoWalk

InitTree ==
    /\ \E f \in MainFiles : fs = MakeFs({Top, Sub}, f)
    /\ \E ps \in SeqsUpTo(MainRoots, MaxPaths), dry, inc, nt, gs \in BOOLEAN :
         cli = [paths |-> ps, dry_run |-> dry, include_h264 |-> inc,
                no_transcode |-> nt, gen_subs |-> gs]

InitPool ==
    /\ fs = MakeFs({Top}, PoolFiles)
    /\ \E nt \in BOOLEAN :
         cli = [paths |-> <<Top>>, dry_run |-> FALSE, include_h264 |-> FALSE,
                no_transcode |-> nt, gen_subs |-> TRUE]

Init == (InitTree \/ InitPool) /\ InitRest

Spec == Init /\ [][Next]_vars

----------------------------------------------------------------------------
(* Vocabulary of the properties *)

Range(q) == {q[i] : i \in DOMAIN q}

\* p lies below the directory root
Under(root, p) == Len(p) > Len(root) /\ SubSeq(p, 1, Len(root)) = root

\* the files at or below a root path
FilesAt(fsys, root) == {p \in DOMAIN fsys : IsFile(fsys, p) /\ (p = root \/ Under(root, p))}

\* the names of the model without an extension, and those whose lowercased
\* extension is one of mp4, mkv, avi, mov, wmv, flv, webm, listed by hand
ExtensionlessNames == {N_noext, N_hidden}
AcceptedNames == {N_a, N_B, TempFileName, NewFileName} \cup
                 {PoolName(i) : i \in 1..MaxPoolVideos}

Extensionless(fsys, root) == {p \in FilesAt(fsys, root) : FileName(p) \in ExtensionlessNames}
Accepted(fsys, root) == {p \in FilesAt(fsys, root) : FileName(p) \in AcceptedNames}

DispatcherTools == {"HandBrakeCLI", "mkvmerge", "rename", "remove_file"}
DispatcherCalls(pi) ==
    {i \in DOMAIN calls : calls[i].tool \in DispatcherTools /\ calls[i].pi = pi}
AllDispatcherCalls == {i \in DOMAIN calls : calls[i].tool \in DispatcherTools}
WhisperInvocations == {i \in DOMAIN invoked : invoked[i] > 0}

InTranscode == pc \in {"transcode", "mkvmerge", "rename", "converted"}
NonEmpty(out) == out \in {"written", "noisy"}
DefaultFlags == ~cli.include_h264 /\ ~cli.dry_run /\ ~cli.no_transcode

\* the files the transcode walk is to select
ExpectedToTranscode(fsys, root, include_h264) ==
    {p \in Accepted(fsys, root) : include_h264 \/ fsys[p].vcodec # H264}

\* the tools whose launch failure is to abort the run
FatalTools == {"ffprobe", "HandBrakeCLI", "mkvmerge"}

\* the speech-to-text invocations in flight
InFlight == {i \in DOMAIN task : task[i] = "running"}

----------------------------------------------------------------------------
(* C1: under --dry-run, whatever the other flags, no dispatcher runs       *)
(* (HandBrakeCLI, mkvmerge, rename, temp deletion, faster-whisper-xxl) and *)
(* no file is created, renamed or deleted.                                 *)
C1_DryRunTouchesNothing ==
    cli.dry_run =>
        /\ AllDispatcherCalls = {}
        /\ WhisperInvocations = {}
        /\ pc # "pool"
        /\ fs = fs0

----------------------------------------------------------------------------
(* C2: on a directory tree whose files all have an extension, and as long  *)
(* as ffprobe can be launched when it is needed, get_videos returns        *)
(* exactly the files below the root, at any depth, whose lowercased        *)
(* extension is accepted and which are not H264 (every accepted file under *)
(* --include-h264), each exactly once.                                     *)
C2_GetVideosExact ==
    ( /\ walk.fn = "get_videos"
      /\ IsDir(fs, walk.root)
      /\ Extensionless(fs, walk.root) = {}
      /\ (cli.include_h264 \/ walk.ffprobeOk) )
    => /\ walk.res.st = "ok"
       /\ Range(walk.res.videos) = ExpectedToTranscode(fs, walk.root, cli.include_h264)
       /\ Len(walk.res.videos) = Cardinality(Range(walk.res.videos))

\* a nested upper-case MP4 is returned while an H264 file of the tree is not
C2_Witness ==
    /\ walk.fn = "get_videos"
    /\ walk.root = Top
    /\ ~cli.include_h264
    /\ walk.res.st = "ok"
    /\ walk.res.videos = <<Append(SubSub, N_B)>>
    /\ \E p \in Accepted(fs, Top) : fs[p].vcodec = H264

----------------------------------------------------------------------------
(* C3: for both walkers, the walk on the path of a file f and the walk on  *)
(* a directory holding only f have the same outcome: the same list or the  *)
(* same abort.                                                             *)
C3_FileRootAsItsDirectory ==
    ( /\ walk.fn # "none"
      /\ IsFile(fs, walk.root)
      /\ ReadDir(fs, Parent(walk.root), NameOrder) = <<walk.root>> )
    => Outcome(walk.res) = Outcome(walk.onParent)

\* a lone video without subtitles, walked as a file root by the subtitle walker
C3_Witness ==
    /\ walk.fn = "get_videos_without_subs"
    /\ IsFile(fs, walk.root)
    /\ ReadDir(fs, Parent(walk.root), NameOrder) = <<walk.root>>
    /\ walk.res.st = "ok"
    /\ walk.res.videos = <<walk.root>>

----------------------------------------------------------------------------
----------------------------------------------------------------------------
(* C5: when HandBrakeCLI and mkvmerge both wrote their output and the      *)
(* rename succeeded, then on return from convert_video the source path     *)
(* holds the muxed content and no temp_file.mkv or new_file.mkv sibling of *)
(* the source remains.                                                     *)
C5_SuccessReplacesSource ==
    (pc = "converted" /\ cv.hb = "written" /\ cv.mkv = "written" /\ cv.renamed) =>
        LET temp_file == WithFileName(cv.src, TempFileName)
            new_file == WithFileName(cv.src, NewFileName)
        IN  /\ IsFile(fs, cv.src)
            /\ fs[cv.src].tag = "mux"
            /\ temp_file # cv.src => ~Exists(fs, temp_file)
            /\ new_file # cv.src => ~Exists(fs, new_file)

----------------------------------------------------------------------------
(* C6 as stated: after a launch failure of any of the four tools no        *)
(* further subprocess is launched.                                         *)
C6_AnyLaunchFailureIsFatal ==
    [][launchFailed # {} => launches' = launches]_vars

(* C6 as amended: a launch failure of ffprobe, HandBrakeCLI or mkvmerge    *)
(* panics: the run is aborted and nothing is launched, logged or written   *)
(* afterwards; an abort for a launch failure is always one of these three  *)
(* (the Result of faster-whisper-xxl is dropped).                          *)
C6_FatalLaunchFailures ==
    /\ [](launchFailed \cap FatalTools # {} => pc = "aborted")
    /\ []((pc = "aborted" /\ abortWhy = "launch") => launchFailed \cap FatalTools # {})
    /\ [][launchFailed \cap FatalTools # {} =>
            UNCHANGED <<launches, calls, invoked, fs>>]_vars

\* mkvmerge failed to launch while a selected video was still waiting
C6_Witness ==
    /\ pc = "aborted"
    /\ "mkvmerge" \in launchFailed
    /\ vidIdx < Len(videos)

----------------------------------------------------------------------------
(* C7: a walk that meets a file without an extension, at the root path or  *)
(* below it, aborts: a walk returns a list only for a path without such a  *)
(* file, the abort leaves no dispatcher call for that path, and nothing    *)
(* runs after it.                                                          *)
C7_MissingExtensionAborts ==
    /\ [](snap.pi >= 1 => Extensionless(snap.fs, cli.paths[snap.pi]) = {})
    /\ [](abortWhy = "noext" =>
            /\ pc = "aborted"
            /\ Extensionless(fs, Root) # {}
            /\ DispatcherCalls(pathIdx) = {}
            /\ WhisperInvocations = {})
    /\ [][abortWhy = "noext" => UNCHANGED vars]_vars

\* the walk of d probed a video, then met d/s/noext; a later root path waits
C7_Witness ==
    /\ pc = "aborted"
    /\ abortWhy = "noext"
    /\ Root = Top
    /\ Exists(fs, Append(Sub, N_noext))
    /\ launches > 0
    /\ pathIdx < Len(cli.paths)

----------------------------------------------------------------------------
(* C8: mkvmerge runs only after HandBrakeCLI printed something, the rename *)
(* and the removal only after mkvmerge printed something; when a step      *)
(* printed nothing, convert_video returns with the source unchanged.       *)
C8_StepsGated ==
    /\ pc \in {"mkvmerge", "rename"} => NonEmpty(cv.hb)
    /\ cv.mkv # "none" => NonEmpty(cv.hb)
    /\ pc = "rename" => NonEmpty(cv.mkv)
    /\ cv.renamed => NonEmpty(cv.mkv)
    /\ (pc = "converted" /\ cv.before # None /\ (cv.hb = "empty" \/ cv.mkv = "empty")) =>
          /\ ~cv.renamed
          /\ IsFile(fs, cv.src)
          /\ fs[cv.src] = cv.before[1]

----------------------------------------------------------------------------
(* C9: in the live subtitle phase at most 4 invocations of                 *)
(* faster-whisper-xxl are in flight, every video is handed to exactly one  *)
(* invocation, no sequential tool call or rename happens while the pool    *)
(* runs, and when the phase is over the progress bar stands at the length  *)
(* of the list.                                                            *)
C9_SubtitlePool ==
    /\ [](pc = "pool" =>
            /\ Cardinality(InFlight) <= 4
            /\ \A i \in DOMAIN task :
                 invoked[i] = IF task[i] = "pending" THEN 0 ELSE 1
            /\ pb = Cardinality({i \in DOMAIN task : task[i] = "done"}))
    /\ []((pc = "endpath" /\ task # <<>>) =>
            /\ pb = Len(videos)
            /\ \A i \in DOMAIN videos : invoked[i] = 1)
    /\ [][pc = "pool" => UNCHANGED <<calls, cv, vidIdx>>]_vars

\* four invocations in flight while a fifth video waits for a thread
C9_Witness ==
    /\ pc = "pool"
    /\ Cardinality(InFlight) = 4
    /\ \E i \in DOMAIN task : task[i] = "pending"

----------------------------------------------------------------------------
(* C10: whatever the name of the source and the outcome of each step, when *)
(* convert_video returns the source path is still a file, holding its      *)
(* original content or the muxed content.                                  *)
C10_SourceNeverLost ==
    (pc = "converted" /\ cv.before # None) =>
        /\ IsFile(fs, cv.src)
        /\ (fs[cv.src] = cv.before[1] \/ fs[cv.src].tag = "mux")

====
